---------------------------- MODULE Spec2Model ----------------------------
(***************************************************************************)
(* drive_temps_to_csv.py: select the temperature records of a health dump  *)
(* and render each as one CSV line.                                        *)
(*                                                                         *)
(* Text is a sequence of one-character strings, so that endswith, split,   *)
(* slicing and joining are computed character by character.  A Python      *)
(* value is a record [t, s, n]: t its type ("str", "int", "none", and      *)
(* "absent" for a key the dict does not hold), s its text, n its number.   *)
(* A health record is a record of the eight keys the program reads.        *)
(***************************************************************************)
EXTENDS Integers, Sequences, FiniteSets, TLC

VARIABLES
    filename,     \* parsed_args.filename: "none" (flag not given), "empty", "path"
    debug,        \* parsed_args.debug
    file,         \* what the path leads to: "unreadable", "badjson", "ok"
    contents,     \* the list the file's JSON document decodes to
    elements,     \* the list handed to the pipeline (<<>> stands for None before the load)
    filter_func,  \* the selector strategy of elements_to_lines
    line_func,    \* the formatter strategy of elements_to_lines
    pc,           \* where the program (or the caller of the pipeline) stands
    pos,          \* how many records the selector's iterator has taken
    requests,     \* how many times the consumer has asked the pipeline for a result
    elem,         \* the record the selector has yielded and that is in flight
    line,         \* the value elements_to_lines has just yielded
    selected,     \* history: the records the selector has yielded
    out,          \* history: the values the consumer's loop has received
    stdout,       \* the lines printed
    stderr,       \* the messages written to the error stream
    exitcode      \* the process's exit status (-1 while it runs)

vars == <<filename, debug, file, contents, elements, filter_func, line_func, pc,
          pos, requests, elem, line, selected, out, stdout, stderr, exitcode>>

\* The longest list of records tried.
MaxLen == 3

\* the literal "/temperature" of filter (line 40)
Suffix ==
    <<"/", "t", "e", "m", "p", "e", "r", "a", "t", "u", "r", "e">>

\* the literal "naa." (line 91)
NaaPrefix ==
    <<"n", "a", "a", ".">>

\* the literal "unknown" (line 94)
Unknown ==
    <<"u", "n", "k", "n", "o", "w", "n">>

\* str(None), what print shows for the absence marker
NoneText ==
    <<"N", "o", "n", "e">>

\* "/SYS123/encl/naa.5000C5001/drive/temperature"
HriScenario ==
    <<"/", "S", "Y", "S", "1", "2", "3", "/", "e", "n", "c", "l", "/", "n",
    "a", "a", ".", "5", "0", "0", "0", "C", "5", "0", "0", "1", "/", "d",
    "r", "i", "v", "e", "/", "t", "e", "m", "p", "e", "r", "a", "t", "u",
    "r", "e">>

\* "/SYS123/encl/naa.5000C5001/drive/voltage"
HriVoltage ==
    <<"/", "S", "Y", "S", "1", "2", "3", "/", "e", "n", "c", "l", "/", "n",
    "a", "a", ".", "5", "0", "0", "0", "C", "5", "0", "0", "1", "/", "d",
    "r", "i", "v", "e", "/", "v", "o", "l", "t", "a", "g", "e">>

\* "/S9/e2/5000C5/bay/temperature" (no naa. prefix)
HriPlain ==
    <<"/", "S", "9", "/", "e", "2", "/", "5", "0", "0", "0", "C", "5", "/",
    "b", "a", "y", "/", "t", "e", "m", "p", "e", "r", "a", "t", "u", "r",
    "e">>

\* "/a/temperature" (2 tokens)
HriShort ==
    <<"/", "a", "/", "t", "e", "m", "p", "e", "r", "a", "t", "u", "r", "e">>

\* "/a/b/c/temperature" (4 tokens)
HriFour ==
    <<"/", "a", "/", "b", "/", "c", "/", "t", "e", "m", "p", "e", "r", "a",
    "t", "u", "r", "e">>

\* "x/s/w/d/temperature" (no leading separator)
HriNoLead ==
    <<"x", "/", "s", "/", "w", "/", "d", "/", "t", "e", "m", "p", "e", "r",
    "a", "t", "u", "r", "e">>

\* "Seagate ST1000"
NameTwo ==
    <<"S", "e", "a", "g", "a", "t", "e", " ", "S", "T", "1", "0", "0", "0">>

\* "SingleToken"
NameOne ==
    <<"S", "i", "n", "g", "l", "e", "T", "o", "k", "e", "n">>

\* two spaces
NameBlank ==
    <<" ", " ">>

\* " WD\tX9  extra "
NameThree ==
    <<" ", "W", "D", "\t", "X", "9", " ", " ", "e", "x", "t", "r", "a",
    " ">>

\* "2023-01-01T00:00:00.000000000Z"
DateText ==
    <<"2", "0", "2", "3", "-", "0", "1", "-", "0", "1", "T", "0", "0", ":",
    "0", "0", ":", "0", "0", ".", "0", "0", "0", "0", "0", "0", "0", "0",
    "0", "Z">>

\* "Drive"
DriveText ==
    <<"D", "r", "i", "v", "e">>

\* "OK"
OkText ==
    <<"O", "K">>

\* "Normal"
NormalText ==
    <<"N", "o", "r", "m", "a", "l">>

\* "a,b" (a value holding the separator)
CommaText ==
    <<"a", ",", "b">>

\* "Celsius"
CelsiusText ==
    <<"C", "e", "l", "s", "i", "u", "s">>

\* the line the specification gives for scenario 1
ScenarioLineSpec ==
    <<"2", "0", "2", "3", "-", "0", "1", "-", "0", "1", "T", "0", "0", ":",
    "0", "0", ":", "0", "0", ".", "0", "0", "0", "0", "0", "0", "0", "0",
    "0", "Z", ",", "S", "Y", "S", "1", "2", "3", ",", "D", "r", "i", "v",
    "e", ",", "S", "T", "1", "0", "0", "0", ",", "N", "o", "r", "m", "a",
    "l", ",", "O", "K", ",", "C", "e", "l", "s", "i", "u", "s", ",", "4",
    "2">>

\* the line of scenario 1 with token[1] of the HRI as system serial
ScenarioLineCode ==
    <<"2", "0", "2", "3", "-", "0", "1", "-", "0", "1", "T", "0", "0", ":",
    "0", "0", ":", "0", "0", ".", "0", "0", "0", "0", "0", "0", "0", "0",
    "0", "Z", ",", "e", "n", "c", "l", ",", "D", "r", "i", "v", "e", ",",
    "S", "T", "1", "0", "0", "0", ",", "N", "o", "r", "m", "a", "l", ",",
    "O", "K", ",", "C", "e", "l", "s", "i", "u", "s", ",", "4", "2">>

\* line 147
MsgNoFilename ==
    <<"P", "l", "e", "a", "s", "e", " ", "s", "p", "e", "c", "i", "f", "y",
    " ", "f", "i", "l", "e", "n", "a", "m", "e", " ", "c", "o", "n", "t",
    "a", "i", "n", "i", "n", "g", " ", "r", "a", "w", " ", "J", "S", "O",
    "N", " ", "d", "a", "t", "a">>

\* line 157 (the cause is left out)
MsgDecode ==
    <<"F", "a", "i", "l", "e", "d", " ", "d", "e", "c", "o", "d", "i", "n",
    "g", " ", "J", "S", "O", "N", " ", "f", "r", "o", "m", " ", "i", "n",
    "p", "u", "t">>

\* line 160 (the cause is left out)
MsgOpen ==
    <<"U", "n", "a", "b", "l", "e", " ", "t", "o", " ", "o", "p", "e", "n",
    " ", "t", "h", "e", " ", "i", "n", "p", "u", "t", " ", "f", "i", "l",
    "e">>

\* the interpreter's report of an uncaught exception
MsgTraceback ==
    <<"T", "r", "a", "c", "e", "b", "a", "c", "k", " ", "(", "m", "o", "s",
    "t", " ", "r", "e", "c", "e", "n", "t", " ", "c", "a", "l", "l", " ",
    "l", "a", "s", "t", ")", ":">>

(***************************************************************************)
(* Python values and text                                                  *)
(***************************************************************************)
Absent == [t |-> "absent", s |-> <<>>, n |-> 0]

None == [t |-> "none", s |-> <<>>, n |-> 0]

PyStr(s) == [t |-> "str", s |-> s, n |-> 0]

PyInt(n) == [t |-> "int", s |-> <<>>, n |-> n]

\* dict.get(key): the value, None for a key the dict does not hold.
get(d, key) == IF d[key].t = "absent" THEN None ELSE d[key]

\* dict.get(key, default)
get_default(d, key, default) == IF d[key].t = "absent" THEN default ELSE d[key]

\* bool(v), as all() applies it: None, "" and 0 are false.
truth(v) ==
    CASE v.t = "str" -> v.s # <<>>
      [] v.t = "int" -> v.n # 0
      [] OTHER -> FALSE

\* str.endswith / str.startswith
endswith(s, suffix) ==
    /\ Len(s) >= Len(suffix)
    /\ SubSeq(s, Len(s) - Len(suffix) + 1, Len(s)) = suffix

startswith(s, prefix) ==
    /\ Len(s) >= Len(prefix)
    /\ SubSeq(s, 1, Len(prefix)) = prefix

\* s[k:]
slice_from(s, k) == SubSeq(s, k + 1, Len(s))

\* s.split(sep) for a one-character separator: empty tokens are kept, and the
\* empty text splits into one empty token.
RECURSIVE split_acc(_, _, _, _)
split_acc(s, sep, done, cur) ==
    IF s = <<>> THEN Append(done, cur)
    ELSE IF Head(s) = sep THEN split_acc(Tail(s), sep, Append(done, cur), <<>>)
    ELSE split_acc(Tail(s), sep, done, Append(cur, Head(s)))

split_on(s, sep) == split_acc(s, sep, <<>>, <<>>)

Whitespace == {" ", "\t", "\n", "\r"}

\* s.split(): runs of whitespace separate, no empty token results.
RECURSIVE words_acc(_, _, _)
words_acc(s, done, cur) ==
    IF s = <<>> THEN (IF cur = <<>> THEN done ELSE Append(done, cur))
    ELSE IF Head(s) \in Whitespace
         THEN words_acc(Tail(s), IF cur = <<>> THEN done ELSE Append(done, cur), <<>>)
    ELSE words_acc(Tail(s), done, Append(cur, Head(s)))

split_words(s) == words_acc(s, <<>>, <<>>)

Digits == <<"0", "1", "2", "3", "4", "5", "6", "7", "8", "9">>

RECURSIVE nat_text(_)
nat_text(n) ==
    IF n < 10 THEN <<Digits[n + 1]>>
    ELSE Append(nat_text(n \div 10), Digits[(n % 10) + 1])

\* str(v), as an f-string renders a field.
text_of(v) ==
    CASE v.t = "str" -> v.s
      [] v.t = "int" -> IF v.n < 0 THEN <<"-">> \o nat_text(-v.n) ELSE nat_text(v.n)
      [] OTHER -> NoneText

RECURSIVE join(_, _)
join(parts, sep) ==
    IF parts = <<>> THEN <<>>
    ELSE IF Len(parts) = 1 THEN parts[1]
    ELSE parts[1] \o sep \o join(Tail(parts), sep)

(***************************************************************************)
(* line_from_dict (lines 44-97)                                            *)
(***************************************************************************)
\* What a call comes to: a line, the absence marker None, or an exception.
Line(s) == [kind |-> "str", s |-> s]

NoLine == [kind |-> "none", s |-> <<>>]

Raised == [kind |-> "raise", s |-> <<>>]

RequiredKeys ==
    <<"HRI", "ComponentName", "ComponentType", "Date", "Severity", "Status",
      "Units", "Value">>

\* all([hri, component_name, component_type, date, severity, status, units, value])
all_zero_ok(element) ==
    \A i \in 1..Len(RequiredKeys) :
        LET v == get(element, RequiredKeys[i])
        IN  truth(v) \/ (v.t = "int" /\ v.n = 0)

all_present(element) ==
    \A i \in 1..Len(RequiredKeys) : truth(get(element, RequiredKeys[i]))

\* hri[1:].split("/")
hri_tokens_of(hri) == split_on(slice_from(hri, 1), "/")

\* len(hri_tokens) < 5
too_few(hri_tokens) == Len(hri_tokens) < 5

\* wwn: hri_tokens[2] without a leading "naa." (computed, and not part of the line)
wwn_of(hri_tokens) ==
    LET wwn == hri_tokens[3]
    IN  IF startswith(wwn, NaaPrefix) THEN slice_from(wwn, 4) ELSE wwn

\* "unknown" if not len(comp_name_tokens) > 1 else comp_name_tokens[1]
drive_serial_first(comp_name_tokens) ==
    IF ~(Len(comp_name_tokens) > 1) THEN Unknown ELSE comp_name_tokens[1]

drive_serial(comp_name_tokens) ==
    IF ~(Len(comp_name_tokens) > 1) THEN Unknown ELSE comp_name_tokens[2]

\* hri_tokens[1]
system_serial_first(hri_tokens) == hri_tokens[1]

system_serial(hri_tokens) == hri_tokens[2]

line_from_dict(element) ==
    LET date           == get(element, "Date")
        hri            == get(element, "HRI")
        value          == get(element, "Value")
        component_name == get(element, "ComponentName")
        component_type == get(element, "ComponentType")
        severity       == get(element, "Severity")
        status         == get(element, "Status")
        units          == get(element, "Units")
    IN  IF ~all_present(element) THEN NoLine
        \* hri[1:] of a value that is no text: TypeError
        ELSE IF hri.t # "str" THEN Raised
        ELSE LET hri_tokens == hri_tokens_of(hri.s)
             IN  IF too_few(hri_tokens) THEN NoLine
                 \* component_name.split() of a value that is no text: AttributeError
                 ELSE IF component_name.t # "str" THEN Raised
                 \* an index past the end of a list: IndexError
                 ELSE IF Len(hri_tokens) < 3 THEN Raised
                 ELSE LET comp_name_tokens == split_words(component_name.s)
                          wwn              == wwn_of(hri_tokens)
                      IN  Line(join(<<text_of(date),
                                      system_serial(hri_tokens),
                                      text_of(component_type),
                                      drive_serial(comp_name_tokens),
                                      text_of(status),
                                      text_of(severity),
                                      text_of(units),
                                      text_of(value)>>, <<",">>))

(***************************************************************************)
(* Health records                                                          *)
(***************************************************************************)
Scenario1 ==
    [HRI |-> PyStr(HriScenario), Date |-> PyStr(DateText), Value |-> PyInt(42),
     ComponentName |-> PyStr(NameTwo), ComponentType |-> PyStr(DriveText),
     Severity |-> PyStr(OkText), Status |-> PyStr(NormalText),
     Units |-> PyStr(CelsiusText)]

\* The records the lists of the pipeline are made of: a line, a record the
\* selector drops, readings the formatter gives up on, a record without HRI,
\* and values of the wrong type (a JSON null, a number).
SampleRecords ==
    { Scenario1,
      [Scenario1 EXCEPT !.HRI = PyStr(HriVoltage)],
      [Scenario1 EXCEPT !.Value = PyInt(0)],
      [Scenario1 EXCEPT !.HRI = PyStr(HriShort)],
      [Scenario1 EXCEPT !.HRI = Absent],
      [Scenario1 EXCEPT !.HRI = None],
      [Scenario1 EXCEPT !.ComponentName = PyInt(7)],
      [Scenario1 EXCEPT !.HRI = PyStr(HriPlain), !.ComponentName = PyStr(NameOne)] }

Lists == UNION { [1..n -> SampleRecords] : n \in 0..MaxLen }

\* The records line_from_dict is tried on, field by field.
FormatterInputs ==
    [HRI : {Absent, None, PyInt(0), PyInt(7), PyStr(<<>>), PyStr(HriScenario),
            PyStr(HriPlain), PyStr(HriVoltage), PyStr(HriShort), PyStr(HriFour),
            PyStr(HriNoLead)},
     ComponentName : {Absent, PyStr(<<>>), PyStr(NameTwo), PyStr(NameOne),
                      PyStr(NameBlank), PyStr(NameThree), PyInt(7)},
     Value : {Absent, None, PyInt(0), PyInt(42), PyInt(-5), PyStr(OkText)},
     Date : {Absent, PyStr(<<>>), PyStr(DateText)},
     ComponentType : {None, PyStr(DriveText)},
     Severity : {PyStr(<<>>), PyStr(OkText)},
     Status : {Absent, PyStr(NormalText), PyStr(CommaText)},
     Units : {PyInt(0), PyStr(CelsiusText)}]

(***************************************************************************)
(* filter (lines 30-41) and the strategies a caller may pass instead       *)
(***************************************************************************)
\* d.get("HRI", "").endswith("/temperature"): "match", "skip", or "raise" (the
\* AttributeError of a value that is no text and has no endswith).
filter_test(d) ==
    LET hri == get_default(d, "HRI", PyStr(<<>>))
    IN  IF hri.t # "str" THEN "raise"
        ELSE IF endswith(hri.s, Suffix) THEN "match" ELSE "skip"

\* Selector strategies: filter, one that keeps every record, and one that
\* keeps every record and walks the list backwards.
Selectors == {"filter", "every", "backwards"}

\* Formatter strategies: line_from_dict, one that yields the HRI's text, and
\* one that always yields None.
Formatters == {"line_from_dict", "hri_text", "nothing"}

selector_test(f, d) == IF f = "filter" THEN filter_test(d) ELSE "match"

\* The index of the k-th record a selector takes from a list of n.
selector_index(f, n, k) == IF f = "backwards" THEN n + 1 - k ELSE k

formatter_result(f, d) ==
    CASE f = "line_from_dict" -> line_from_dict(d)
      [] f = "hri_text" -> IF d.HRI.t = "str" THEN Line(d.HRI.s) ELSE NoLine
      [] OTHER -> NoLine

(***************************************************************************)
(* The pipeline, one generator step at a time                              *)
(***************************************************************************)
\* The consumer's for loop asks elements_to_lines for its next value, which
\* asks the selector for its next record.
next_result ==
    /\ pc = "next"
    /\ pc' = "scan"
    /\ requests' = requests + 1
    /\ UNCHANGED <<filename, debug, file, contents, elements, filter_func,
                   line_func, pos, elem, line, selected, out, stdout, stderr,
                   exitcode>>

\* A selector that runs through the whole list when first asked.
filter_eager ==
    /\ pc = "scan"
    /\ LET n == Len(elements)
           hits == { k \in pos + 1 .. n : selector_test(filter_func, elements[k]) = "match" }
       IN  IF hits = {}
           THEN /\ pc' = "stop"
                /\ pos' = n
                /\ UNCHANGED <<elem, selected>>
           ELSE LET k == CHOOSE h \in hits : \A g \in hits : h <= g
                IN  /\ pc' = "format"
                    /\ pos' = n
                    /\ elem' = elements[k]
                    /\ selected' = Append(selected, elements[k])
    /\ UNCHANGED <<filename, debug, file, contents, elements, filter_func,
                   line_func, requests, line, out, stdout, stderr, exitcode>>

\* The selector takes one record from the list and tests it (line 40); a
\* record that passes is yielded (line 41), the end of the list ends the
\* generator.
filter ==
    /\ pc = "scan"
    /\ IF pos = Len(elements)
       THEN /\ pc' = "stop"
            /\ UNCHANGED <<pos, elem, selected>>
       ELSE LET d == elements[selector_index(filter_func, Len(elements), pos + 1)]
                t == selector_test(filter_func, d)
            IN  /\ pos' = pos + 1
                /\ pc' = CASE t = "match" -> "format"
                           [] t = "skip" -> "scan"
                           [] OTHER -> "raise"
                /\ elem' = IF t = "match" THEN d ELSE elem
                /\ selected' = IF t = "match" THEN Append(selected, d) ELSE selected
    /\ UNCHANGED <<filename, debug, file, contents, elements, filter_func,
                   line_func, requests, line, out, stdout, stderr, exitcode>>

\* A pipeline that always formats with line_from_dict.
elements_to_lines_default ==
    /\ pc = "format"
    /\ LET r == line_from_dict(elem)
       IN  IF r.kind = "raise"
           THEN pc' = "raise" /\ UNCHANGED line
           ELSE pc' = "body" /\ line' = r
    /\ UNCHANGED <<filename, debug, file, contents, elements, filter_func,
                   line_func, pos, requests, elem, selected, out, stdout,
                   stderr, exitcode>>

\* yield line_func(elem) (line 116)
elements_to_lines ==
    /\ pc = "format"
    /\ LET r == formatter_result(line_func, elem)
       IN  IF r.kind = "raise"
           THEN pc' = "raise" /\ UNCHANGED line
           ELSE pc' = "body" /\ line' = r
    /\ UNCHANGED <<filename, debug, file, contents, elements, filter_func,
                   line_func, pos, requests, elem, selected, out, stdout,
                   stderr, exitcode>>

\* A caller of elements_to_lines that keeps every value it is given.
caller_collect ==
    /\ pc = "body"
    /\ out' = Append(out, line)
    /\ pc' = "next"
    /\ UNCHANGED <<filename, debug, file, contents, elements, filter_func,
                   line_func, pos, requests, elem, line, selected, stdout,
                   stderr, exitcode>>

(***************************************************************************)
(* __main__ (lines 142-170)                                                *)
(***************************************************************************)
\* if not parsed_args.filename (lines 146-149)
main_check_filename ==
    /\ pc = "args"
    /\ IF filename \in {"none", "empty"}
       THEN /\ stderr' = Append(stderr, MsgNoFilename)
            /\ exitcode' = 1
            /\ pc' = "exit"
       ELSE /\ pc' = "open"
            /\ UNCHANGED <<stderr, exitcode>>
    /\ UNCHANGED <<filename, debug, file, contents, elements, filter_func,
                   line_func, pos, requests, elem, line, selected, out, stdout>>

\* open and json.load (lines 150-161)
main_load ==
    /\ pc = "open"
    /\ CASE file = "unreadable" ->
              /\ stderr' = Append(stderr, MsgOpen)
              /\ exitcode' = 1
              /\ pc' = "exit"
              /\ UNCHANGED elements
         [] file = "badjson" ->
              /\ stderr' = Append(stderr, MsgDecode)
              /\ exitcode' = 1
              /\ pc' = "exit"
              /\ UNCHANGED elements
         [] OTHER ->
              /\ elements' = contents
              /\ pc' = "debug"
              /\ UNCHANGED <<stderr, exitcode>>
    /\ UNCHANGED <<filename, debug, file, contents, filter_func, line_func, pos,
                   requests, elem, line, selected, out, stdout>>

\* A program that runs the pipeline whatever the flag says.
main_debug_always ==
    /\ pc = "debug"
    /\ pc' = "next"
    /\ UNCHANGED <<filename, debug, file, contents, elements, filter_func,
                   line_func, pos, requests, elem, line, selected, out, stdout,
                   stderr, exitcode>>

\* if debug: the loop over elements_to_lines(elements); else: pass (lines 165-170)
main_debug ==
    /\ pc = "debug"
    /\ pc' = IF debug THEN "next" ELSE "end"
    /\ UNCHANGED <<filename, debug, file, contents, elements, filter_func,
                   line_func, pos, requests, elem, line, selected, out, stdout,
                   stderr, exitcode>>

\* A loop body that prints whatever it is given.
main_print_all ==
    /\ pc = "body"
    /\ out' = Append(out, line)
    /\ stdout' = Append(stdout, IF line.kind = "str" THEN line.s ELSE NoneText)
    /\ pc' = "next"
    /\ UNCHANGED <<filename, debug, file, contents, elements, filter_func,
                   line_func, pos, requests, elem, line, selected, stderr,
                   exitcode>>

\* if line: print(line) (lines 167-168)
main_print ==
    /\ pc = "body"
    /\ out' = Append(out, line)
    /\ stdout' = IF line.kind = "str" /\ line.s # <<>>
                 THEN Append(stdout, line.s) ELSE stdout
    /\ pc' = "next"
    /\ UNCHANGED <<filename, debug, file, contents, elements, filter_func,
                   line_func, pos, requests, elem, line, selected, stderr,
                   exitcode>>

\* An exception nothing catches ends the process: the interpreter writes the
\* traceback to the error stream and the exit status is 1.
main_uncaught ==
    /\ pc = "raise"
    /\ stderr' = Append(stderr, MsgTraceback)
    /\ exitcode' = 1
    /\ pc' = "exit"
    /\ UNCHANGED <<filename, debug, file, contents, elements, filter_func,
                   line_func, pos, requests, elem, line, selected, out, stdout>>

\* The end of the script, after the loop or after pass: exit status 0.
main_end ==
    /\ pc \in {"stop", "end"}
    /\ exitcode' = 0
    /\ pc' = "exit"
    /\ UNCHANGED <<filename, debug, file, contents, elements, filter_func,
                   line_func, pos, requests, elem, line, selected, out, stdout,
                   stderr>>

\* One call of line_from_dict on a record.
call_line_from_dict ==
    /\ pc = "call"
    /\ line' = line_from_dict(elem)
    /\ pc' = "return"
    /\ UNCHANGED <<filename, debug, file, contents, elements, filter_func,
                   line_func, pos, requests, elem, selected, out, stdout,
                   stderr, exitcode>>

(***************************************************************************)
(* Specifications                                                          *)
(***************************************************************************)
Idle ==
    /\ pos = 0
    /\ requests = 0
    /\ line = NoLine
    /\ selected = <<>>
    /\ out = <<>>
    /\ stdout = <<>>
    /\ stderr = <<>>
    /\ exitcode = -1

\* The program: its arguments and the file they name.
Init ==
    /\ filename \in {"none", "empty", "path"}
    /\ debug \in BOOLEAN
    /\ file \in {"unreadable", "badjson", "ok"}
    /\ contents \in IF filename = "path" /\ file = "ok" THEN Lists ELSE {<<>>}
    /\ elements = <<>>
    /\ filter_func = "filter"
    /\ line_func = "line_from_dict"
    /\ elem = Scenario1
    /\ pc = "args"
    /\ Idle

Next ==
    \/ main_check_filename
    \/ main_load
    \/ main_debug
    \/ next_result
    \/ filter
    \/ elements_to_lines
    \/ main_print
    \/ main_uncaught
    \/ main_end

Spec == Init /\ [][Next]_vars

\* elements_to_lines called with a list and a pair of strategies, by a caller
\* that takes its values one by one.
InitLib ==
    /\ filename = "none"
    /\ debug = FALSE
    /\ file = "ok"
    /\ contents = <<>>
    /\ elements \in Lists
    /\ filter_func \in Selectors
    /\ line_func \in Formatters
    /\ elem = Scenario1
    /\ pc = "next"
    /\ Idle

NextLib ==
    \/ next_result
    \/ filter
    \/ elements_to_lines
    \/ caller_collect

SpecLib == InitLib /\ [][NextLib]_vars

\* line_from_dict called on one record.
InitFmt ==
    /\ filename = "none"
    /\ debug = FALSE
    /\ file = "ok"
    /\ contents = <<>>
    /\ elements = <<>>
    /\ filter_func = "filter"
    /\ line_func = "line_from_dict"
    /\ elem \in FormatterInputs
    /\ pc = "call"
    /\ Idle

NextFmt == call_line_from_dict

SpecFmt == InitFmt /\ [][NextFmt]_vars

(***************************************************************************)
(* What the specification says of a record, stated apart from the code     *)
(***************************************************************************)
\* The record has an HRI that is text ending in "/temperature".
HasTemperatureHRI(d) == d.HRI.t = "str" /\ endswith(d.HRI.s, Suffix)

\* The value is absent, None, empty or zero.
Falsy(v) ==
    \/ v.t \in {"absent", "none"}
    \/ v.t = "str" /\ v.s = <<>>
    \/ v.t = "int" /\ v.n = 0

AllTruthy(d) == \A i \in 1..Len(RequiredKeys) : ~Falsy(d[RequiredKeys[i]])

\* The tokens of an HRI: its first character removed, the rest split on "/".
PathTokens(d) == split_on(Tail(d.HRI.s), "/")

\* The record's eight fields are truthy, its HRI and its ComponentName are
\* text, and the HRI has at least 5 tokens.
Renderable(d) ==
    /\ AllTruthy(d)
    /\ d.HRI.t = "str"
    /\ d.ComponentName.t = "str"
    /\ Len(PathTokens(d)) >= 5

NameTokens(d) == split_words(d.ComponentName.s)

DriveSerial(d) == IF Len(NameTokens(d)) > 1 THEN NameTokens(d)[2] ELSE Unknown

ExpectedLine(d) ==
    text_of(d.Date) \o <<",">> \o PathTokens(d)[2] \o <<",">>
        \o text_of(d.ComponentType) \o <<",">> \o DriveSerial(d) \o <<",">>
        \o text_of(d.Status) \o <<",">> \o text_of(d.Severity) \o <<",">>
        \o text_of(d.Units) \o <<",">> \o text_of(d.Value)

\* The text of the lines among a sequence of results.
RECURSIVE LinesOf(_)
LinesOf(results) ==
    IF results = <<>> THEN <<>>
    ELSE IF Head(results).kind = "str"
         THEN <<Head(results).s>> \o LinesOf(Tail(results))
         ELSE LinesOf(Tail(results))

RECURSIVE Reverse(_)
Reverse(s) == IF s = <<>> THEN <<>> ELSE Append(Reverse(Tail(s)), Head(s))

DefaultStrategies == filter_func = "filter" /\ line_func = "line_from_dict"

\* The records a selector strategy is to yield from the list, in its order.
SelectionOf(f) ==
    CASE f = "filter" -> SelectSeq(elements, HasTemperatureHRI)
      [] f = "every" -> elements
      [] OTHER -> Reverse(elements)

(***************************************************************************)
(* Properties                                                              *)
(***************************************************************************)
\* C1: once it has ended, over any list of records, the selector has yielded
\* exactly the records whose HRI is present and ends with "/temperature", in
\* their order and each once (a record without HRI counting as not matching).
\* The formatter strategy here is the one that cannot fail, so that only the
\* selector decides.
C1_SelectorYieldsExactlyTemperatureRecords ==
    (filter_func = "filter" /\ line_func = "nothing" /\ pc \in {"stop", "raise"})
        => selected = SelectSeq(elements, HasTemperatureHRI)

C3_SystemSerialIsFirstComponent ==
    (pc = "return" /\ Renderable(elem) /\ Head(elem.HRI.s) = "/")
        => /\ line.kind = "str"
           /\ startswith(line.s, text_of(elem.Date) \o <<",">>
                                   \o PathTokens(elem)[1] \o <<",">>)
           /\ (elem = Scenario1 => line.s = ScenarioLineSpec)

\* C3, amended: for a well-formed HRI /<sys>/<x>/<wwn>/... in a record whose
\* fields are all truthy, the second field of any line returned is <x>, the
\* token at index 1; a line is returned whenever ComponentName is text; and
\* the record of scenario 1 gives the line with encl as its second field.
C3_SystemSerialIsSecondComponent ==
    (/\ pc = "return"
     /\ AllTruthy(elem)
     /\ elem.HRI.t = "str"
     /\ Head(elem.HRI.s) = "/"
     /\ Len(PathTokens(elem)) >= 5)
        => /\ line.kind = "str" =>
                startswith(line.s, text_of(elem.Date) \o <<",">>
                                     \o PathTokens(elem)[2] \o <<",">>)
           /\ elem.ComponentName.t = "str" => line.kind = "str"
           /\ elem = Scenario1 => line = Line(ScenarioLineCode)

C3_Witness ==
    /\ pc = "return"
    /\ elem = Scenario1
    /\ line = Line(ScenarioLineCode)

\* C4: when any of the eight fields is absent, None, empty or zero,
\* line_from_dict returns None (no line, no exception); so does the record of
\* scenario 1 with Value 0.
C4_FalsyFieldGivesNone ==
    (pc = "return" /\ ~AllTruthy(elem)) => line = NoLine

C4_Witness ==
    /\ pc = "return"
    /\ elem = [Scenario1 EXCEPT !.Value = PyInt(0)]
    /\ line = NoLine

\* C5: with the default strategies, no record of any list makes the selector
\* or the formatter raise, and the pipeline comes to the end of the list.
C5_NoRecordRaises ==
    DefaultStrategies => (pc # "raise" /\ (pc = "stop" => pos = Len(elements)))

\* C6: whatever the two strategies, the values the caller has received are the
\* formatter's results for the records the selector has yielded, one each
\* (None included) and in the selector's order; when the generator ends every
\* yielded record has its result, and the records yielded are the selector's
\* selection of the list (for filter: the matching records in input order).
C6_YieldsFormatterOfEachSelected ==
    /\ Len(out) <= Len(selected)
    /\ \A i \in 1..Len(out) : out[i] = formatter_result(line_func, selected[i])
    /\ pc = "stop" =>
          /\ Len(out) = Len(selected)
          /\ selected = SelectionOf(filter_func)

C6_Witness ==
    /\ pc = "stop"
    /\ filter_func = "backwards"
    /\ line_func = "line_from_dict"
    /\ Len(out) = 2
    /\ out[1].kind = "none"
    /\ out[2].kind = "str"

\* C7: the process exits with 1 when the filename is missing, the file cannot
\* be opened or its content is no JSON, each time after a message on the error
\* stream and before any record is selected or formatted; every other run
\* exits with 0.
C7_ExitCodes ==
    pc = "exit" =>
        IF filename # "path" \/ file # "ok"
        THEN /\ exitcode = 1
             /\ stderr # <<>>
             /\ pos = 0
             /\ selected = <<>>
             /\ out = <<>>
        ELSE exitcode = 0

\* C8: with --debug, what has been printed is the text of the lines among the
\* results the loop has received, in order, one line each; each result is
\* line_from_dict of the record selected for it; a None result adds nothing to
\* either stream; and a run that ends with status 0 has printed the lines of
\* the matching records of the input, in input order.
C8_PrintsExactlyTheLines ==
    debug =>
        /\ stdout = LinesOf(out)
        /\ \A i \in 1..Len(out) : out[i] = line_from_dict(selected[i])
        /\ exitcode # 1 => stderr = <<>>
        /\ (pc = "exit" /\ exitcode = 0) =>
              /\ Len(out) = Len(selected)
              /\ selected = SelectSeq(elements, HasTemperatureHRI)

C8_Witness ==
    /\ debug
    /\ pc = "exit"
    /\ exitcode = 0
    /\ Len(out) = 2
    /\ out[1].kind = "none"
    /\ stdout = <<ScenarioLineCode>>

\* C9, as the specification states it: without --debug the records of the
\* loaded input are still selected and formatted, and nothing is printed.
C9_ProcessedThoughNotPrinted ==
    (pc = "exit" /\ ~debug /\ filename = "path" /\ file = "ok")
        => /\ pos = Len(elements)
           /\ Len(out) = Len(SelectSeq(elements, HasTemperatureHRI))
           /\ stdout = <<>>

\* C9, amended: without --debug the pipeline is never run: no record of the
\* loaded input is inspected, selected or formatted, nothing is printed, and
\* once the input is loaded the process ends with status 0 and an empty error
\* stream.
C9_NothingProcessedWithoutDebug ==
    ~debug =>
        /\ pos = 0
        /\ requests = 0
        /\ selected = <<>>
        /\ out = <<>>
        /\ stdout = <<>>
        /\ (pc = "exit" /\ filename = "path" /\ file = "ok") =>
              (exitcode = 0 /\ stderr = <<>>)

C9_Witness ==
    /\ ~debug
    /\ pc = "exit"
    /\ exitcode = 0
    /\ Len(elements) = 2
    /\ HasTemperatureHRI(elements[1])
    /\ ~HasTemperatureHRI(elements[2])

\* C10: with the default strategies the pipeline works on demand, one selected
\* record in flight at most: every matching record the selector has inspected
\* has been yielded, all but possibly the last have had their result received
\* by the caller, the one in flight is the last record inspected, and records
\* are inspected only while a request of the caller is outstanding.
C10_OnDemandOneInFlight ==
    DefaultStrategies =>
        /\ Cardinality({k \in 1..pos : HasTemperatureHRI(elements[k])}) = Len(selected)
        /\ pc \in {"format", "body"} =>
              /\ Len(selected) = Len(out) + 1
              /\ pos >= 1
              /\ HasTemperatureHRI(elements[pos])
              /\ elements[pos] = elem
        /\ pc \in {"next", "scan", "stop"} => Len(selected) = Len(out)
        /\ pc \in {"scan", "format", "body"} => requests = Len(out) + 1
        /\ pc = "next" => requests = Len(out)
        /\ requests = 0 => pos = 0

C10_Witness ==
    /\ DefaultStrategies
    /\ pc = "body"
    /\ pos = 1
    /\ out = <<>>
    /\ Len(elements) = 2
    /\ HasTemperatureHRI(elements[2])

=============================================================================
